---- MODULE Spec2Model ----
(***************************************************************************)
(* A model of the User service (src/src/User.ts) over its single `User`    *)
(* collection (src/src/schema.ts).                                         *)
(*                                                                         *)
(* Strings are sequences of one-character strings, so that the shape tests *)
(* the code performs on them (isEmail, ObjectId validity) are computed.    *)
(* The collection is the sequence of its documents in insertion order.     *)
(* Each exposed handler is one action in the sequential specifications     *)
(* (Spec, SpecUsers, SpecReads, SpecRoundTrip) and one action per store    *)
(* round trip in the specifications of overlapping calls (SpecRace,        *)
(* SpecRaceUsers), where the handlers of two clients interleave at their   *)
(* awaits.                                                                 *)
(***************************************************************************)
EXTENDS Integers, Sequences, FiniteSets, TLC

VARIABLES
    db,       \* the User collection: a sequence of documents, insertion order
    nextCar,  \* number of car sub-document identifiers generated so far, plus 1
    pc,       \* per client: the round trip its running handler is suspended before
    local,    \* per client: the locals of its running handler
    call,     \* per client: the last call it made (handler and arguments)
    before,   \* per client: the collection when that call made its first round trip
    ret       \* per client: what that call gave back (document, null, or error)

vars == <<db, nextCar, pc, local, call, before, ret>>

(***************************************************************************)
(* Bounds of the model.                                                    *)
(***************************************************************************)
MaxUsers == 2     \* documents the collection may hold
MaxRehash == 2    \* digests of a digest a stored password may be, for it to be passed back
MaxCarIds == 4    \* car identifiers the store may hand out
OidLen == 2       \* hex characters of an identifier string (24 in the driver)

Procs == {1, 2}   \* clients of the service

(***************************************************************************)
(* Configuration and helpers of the repository that src/ does not hold.    *)
(***************************************************************************)
MAX_USER_CARS_COUNT == 2

\* helpers.isEmail: the string contains an "@"
isEmail(s) == \E i \in 1..Len(s) : s[i] = "@"

\* helpers.md5: a deterministic one-way digest; the digest of s is a fresh
\* string determined by s, different from s and from the digest of any other
\* string
md5(s) == <<"md5:">> \o s

(***************************************************************************)
(* Identifier strings.                                                     *)
(***************************************************************************)
HexDigits == <<"0", "1", "2", "3", "4", "5", "6", "7",
               "8", "9", "a", "b", "c", "d", "e", "f">>

Hex == {HexDigits[i] : i \in 1..Len(HexDigits)}

\* mongoose.Types.ObjectId(s) accepts s, and throws otherwise
ObjectIdValid(s) == Len(s) = OidLen /\ \A i \in 1..Len(s) : s[i] \in Hex

\* the identifier string of the k-th document / the k-th car sub-document
Oid(prefix, k) ==
    [i \in 1..OidLen |-> IF i = 1 THEN prefix
                         ELSE IF i = OidLen THEN HexDigits[k + 1] ELSE "0"]

UserOid(k) == Oid("a", k)

CarOid(k) == Oid("c", k)

(***************************************************************************)
(* Results of a call.                                                      *)
(***************************************************************************)
NoDoc == [_id |-> <<>>]

Pending == [kind |-> "pending", err |-> "", log |-> "", doc |-> NoDoc]

Threw(e) == [kind |-> "error", err |-> e, log |-> "", doc |-> NoDoc]

Null == [kind |-> "null", err |-> "", log |-> "", doc |-> NoDoc]

\* null given back after the cause was logged (logger.warn / logger.error)
LoggedNull(cause) == [kind |-> "null", err |-> "", log |-> cause, doc |-> NoDoc]

Returned(d) == [kind |-> "doc", err |-> "", log |-> "", doc |-> d]

\* the number a count gives back
Counted(n) == [kind |-> "count", err |-> "", log |-> "", doc |-> NoDoc, n |-> n]

\* the documents a find gives back
Found(docs) == [kind |-> "docs", err |-> "", log |-> "", doc |-> NoDoc, docs |-> docs]

(***************************************************************************)
(* The schema (src/src/schema.ts).                                         *)
(***************************************************************************)
Has(data, f) == f \in DOMAIN data

RequiredPaths == {"email", "password", "firstName", "lastName"}

\* the `required` validators run by save(): a required string must be
\* present and non-empty
Validates(data) == \A f \in RequiredPaths : Has(data, f) /\ data[f] # <<>>

\* the cars array cast to sub-documents, each given an _id by the store
CastCars(cs, base) ==
    [i \in 1..Len(cs) |-> [_id |-> CarOid(base + i - 1),
                           carId |-> cs[i].carId,
                           regNumber |-> cs[i].regNumber]]

\* new UserModel(data): the schema's defaults fill the absent paths
NewDoc(data, id, base) ==
    [_id |-> id,
     email |-> data.email,
     password |-> data.password,
     isActive |-> IF Has(data, "isActive") THEN data.isActive ELSE TRUE,
     isAdmin |-> IF Has(data, "isAdmin") THEN data.isAdmin ELSE FALSE,
     firstName |-> data.firstName,
     lastName |-> data.lastName,
     cars |-> IF Has(data, "cars") THEN CastCars(data.cars, base) ELSE <<>>]

\* as DuplicateKey, the unique index never built
NoUniqueIndex(coll, e, self) == FALSE

\* the unique index on email: writing email e into the document at position
\* `self` (0 for an insert) collides with another document holding e
DuplicateKey(coll, e, self) ==
    \E i \in 1..Len(coll) : i # self /\ coll[i].email = e

(***************************************************************************)
(* Queries.                                                                *)
(***************************************************************************)
\* positions of the documents matching {field: value}, in store order
Matching(coll, field, value) == {i \in 1..Len(coll) : coll[i][field] = value}

\* positions of the documents matching {'cars._id': cid}
Owning(coll, cid) ==
    {i \in 1..Len(coll) : \E j \in 1..Len(coll[i].cars) : coll[i].cars[j]._id = cid}

First(S) == CHOOSE i \in S : \A j \in S : i <= j

FieldSet(fields) == {fields[i] : i \in 1..Len(fields)}

\* query.select(fields.join(' ')): the named paths, and _id, of the document
Project(doc, fields) ==
    IF Len(fields) = 0 THEN doc
    ELSE [f \in ((FieldSet(fields) \cap DOMAIN doc) \cup {"_id"}) |-> doc[f]]

\* User.fetch
fetch(coll, criteria, fields) ==
    IF isEmail(criteria)
    THEN LET m == Matching(coll, "email", criteria)
         IN IF m = {} THEN Null ELSE Returned(Project(coll[First(m)], fields))
    ELSE IF ~ObjectIdValid(criteria) THEN Threw("InvalidObjectId")
    ELSE LET m == Matching(coll, "_id", criteria)
         IN IF m = {} THEN Null ELSE Returned(Project(coll[First(m)], fields))

\* User.carsCount: the count, or the error the call throws
carsCount(coll, idOrEmail) ==
    LET field == IF isEmail(idOrEmail) THEN "email" ELSE "_id"
    IN IF field = "_id" /\ ~ObjectIdValid(idOrEmail)
       THEN [err |-> "InvalidObjectId", n |-> 0]
       ELSE LET m == Matching(coll, field, idOrEmail)
            IN [err |-> "", n |-> IF m = {} THEN 0 ELSE Len(coll[First(m)].cars)]

\* the letters a case-insensitive pattern folds
UpperCase == <<"A", "B", "C", "D", "E", "F", "G", "H", "I", "J", "K", "L", "M",
               "N", "O", "P", "Q", "R", "S", "T", "U", "V", "W", "X", "Y", "Z">>

LowerCase == <<"a", "b", "c", "d", "e", "f", "g", "h", "i", "j", "k", "l", "m",
               "n", "o", "p", "q", "r", "s", "t", "u", "v", "w", "x", "y", "z">>

Lower(c) ==
    IF \E k \in 1..Len(UpperCase) : UpperCase[k] = c
    THEN LowerCase[CHOOSE k \in 1..Len(UpperCase) : UpperCase[k] = c]
    ELSE c

\* one character of a pattern against one character of a string: "." stands
\* for any character, a letter for itself, in either case under option "i"
CharMatch(pattern, options, c) ==
    \/ pattern = "."
    \/ IF options = "i" THEN Lower(pattern) = Lower(c) ELSE pattern = c

\* {$regex: pattern, $options: options} on string s: the pattern occurs
\* somewhere in s
RegexFind(pattern, options, s) ==
    \E start \in 0..(Len(s) - Len(pattern)) :
        \A j \in 1..Len(pattern) : CharMatch(pattern[j], options, s[start + j])

\* the filter keys prepare passes through as they are
ExactFilters == {"isAdmin", "isActive"}

\* as prepare, the pattern matched case-sensitively
prepareSensitive(filters) ==
    [k \in DOMAIN filters |->
        IF k \in ExactFilters THEN filters[k]
        ELSE [regex |-> filters[k], options |-> ""]]

\* User.prepare
prepare(filters) ==
    [k \in DOMAIN filters |->
        IF k \in ExactFilters THEN filters[k]
        ELSE [regex |-> filters[k], options |-> "i"]]

\* the store's reading of a query on one document: a path given a plain
\* value holds that value, a path given {$regex, $options} matches the pattern
Match(doc, query) ==
    \A k \in DOMAIN query :
        IF k \in ExactFilters THEN doc[k] = query[k]
        ELSE RegexFind(query[k].regex, query[k].options, doc[k])

\* filters || {}
OrEmpty(args) == IF Has(args, "filters") THEN args.filters ELSE <<>>

\* User.count
count(coll, args) ==
    Counted(Cardinality({i \in 1..Len(coll) : Match(coll[i], prepare(OrEmpty(args)))}))

\* as Page, a limit of zero taken as a limit
PageLimitZero(rows, args) ==
    LET from == IF Has(args, "skip") /\ args.skip # 0 THEN args.skip ELSE 0
        rest == SubSeq(rows, from + 1, Len(rows))
    IN IF Has(args, "limit") /\ args.limit < Len(rest)
       THEN SubSeq(rest, 1, args.limit)
       ELSE rest

\* if (skip) query.skip(skip); if (limit) query.limit(limit)
Page(rows, args) ==
    LET from == IF Has(args, "skip") /\ args.skip # 0 THEN args.skip ELSE 0
        rest == SubSeq(rows, from + 1, Len(rows))
    IN IF Has(args, "limit") /\ args.limit # 0 /\ args.limit < Len(rest)
       THEN SubSeq(rest, 1, args.limit)
       ELSE rest

\* User.find
find(coll, args) ==
    LET query == prepare(OrEmpty(args))
        rows == Page(SelectSeq(coll, LAMBDA doc : Match(doc, query)), args)
        fields == IF Has(args, "fields") THEN args.fields ELSE <<>>
    IN Found([i \in 1..Len(rows) |-> Project(rows[i], fields)])

(***************************************************************************)
(* Store round trips.  Each gives the collection and the car-identifier    *)
(* counter after it, with the error it rejected with ("" for none).        *)
(***************************************************************************)
Wrote(coll, nc) == [db |-> coll, nextCar |-> nc, err |-> ""]

Rejected(coll, nc, e) == [db |-> coll, nextCar |-> nc, err |-> e]

CarsIn(data) == IF Has(data, "cars") THEN Len(data.cars) ELSE 0

Without(data, f) == [g \in DOMAIN data \ {f} |-> data[g]]

\* user.save() of createUser: validation, then the insert under the unique index
save(coll, nc, data) ==
    IF ~Validates(data) THEN Rejected(coll, nc, "ValidationError")
    ELSE IF DuplicateKey(coll, data.email, 0) THEN Rejected(coll, nc, "duplicate key")
    ELSE Wrote(Append(coll, NewDoc(data, UserOid(Len(coll) + 1), nc)),
               nc + CarsIn(data))

\* the document with the paths of the payload set ($set), the others kept
SetPaths(doc, data, base) ==
    [f \in DOMAIN doc |->
        IF ~Has(data, f) THEN doc[f]
        ELSE IF f = "cars" THEN CastCars(data.cars, base)
        ELSE data[f]]

\* UserModel.updateOne({ _id }, data) of updateUser: no validators run; the
\* unique index rejects an email another document holds
updateOne(coll, nc, id, data) ==
    IF ~ObjectIdValid(id) THEN Rejected(coll, nc, "CastError")
    ELSE LET m == Matching(coll, "_id", id)
         IN IF m = {} THEN Wrote(coll, nc)
            ELSE LET i == First(m)
                 IN IF Has(data, "email") /\ DuplicateKey(coll, data.email, i)
                    THEN Rejected(coll, nc, "duplicate key")
                    ELSE Wrote([coll EXCEPT ![i] = SetPaths(@, data, nc)],
                               nc + CarsIn(data))

\* UserModel.updateOne({ _id }, { $push: { cars } }) of addCar; nModified is
\* the number of documents it changed
pushCar(coll, nc, userId, carId, regNumber) ==
    IF ~ObjectIdValid(userId)
    THEN [db |-> coll, nextCar |-> nc, err |-> "InvalidObjectId", nModified |-> 0]
    ELSE LET m == Matching(coll, "_id", userId)
         IN IF m = {}
            THEN [db |-> coll, nextCar |-> nc, err |-> "", nModified |-> 0]
            ELSE [db |-> [coll EXCEPT ![First(m)].cars =
                             Append(@, [_id |-> CarOid(nc), carId |-> carId,
                                        regNumber |-> regNumber])],
                  nextCar |-> nc + 1, err |-> "", nModified |-> 1]

\* UserModel.findOne({ 'cars._id': ObjectId(carId) }) of removeCar: the
\* owner's identifier, <<>> when no document matches
findOwner(coll, carId) ==
    IF ~ObjectIdValid(carId) THEN [err |-> "InvalidObjectId", owner |-> <<>>]
    ELSE LET m == Owning(coll, carId)
         IN [err |-> "", owner |-> IF m = {} THEN <<>> ELSE coll[First(m)]._id]

\* as Pulled, the first car dropped whichever was asked for
PulledFirst(cars, carId) == IF cars = <<>> THEN cars ELSE Tail(cars)

\* the cars left by { $pull: { cars: { _id } } }
Pulled(cars, carId) == SelectSeq(cars, LAMBDA c : c._id # carId)

\* UserModel.update({ 'cars._id' }, { $pull }) of removeCar: the first match
pullCar(coll, nc, carId) ==
    LET m == Owning(coll, carId)
    IN IF m = {} THEN Wrote(coll, nc)
       ELSE Wrote([coll EXCEPT ![First(m)].cars = Pulled(@, carId)], nc)

(***************************************************************************)
(* The handlers' own logic.                                                *)
(***************************************************************************)
\* as HashPassword, the password stored as given
NoHash(data) == data

\* update: if (data.password) data.password = md5(data.password)
HashPassword(data) ==
    IF Has(data, "password") /\ data.password # <<>>
    THEN [data EXCEPT !.password = md5(@)]
    ELSE data

\* update: if (data._id)
HasId(data) == Has(data, "_id") /\ data._id # <<>>

\* as CreateCatch, every error thrown on as it is
Rethrow(e) == e

\* createUser's catch: a duplicate-key error becomes the duplicate e-mail
\* TypeError, any other error is thrown on
CreateCatch(e) == IF e = "duplicate key" THEN "DuplicateEmail" ELSE e

\* as LimitReached, the comparison strict
LimitPassed(n) == n > MAX_USER_CARS_COUNT

\* as LimitReached, the check left out
LimitIgnored(n) == FALSE

\* addCar: carsCount >= MAX_USER_CARS_COUNT
LimitReached(n) == n >= MAX_USER_CARS_COUNT

\* addCar / removeCar: the catch around the round trips logs and gives null
Swallow(r) == IF r.kind = "error" THEN LoggedNull(r.err) ELSE r

(***************************************************************************)
(* Whole handlers, their round trips run back to back: the collection, the *)
(* counter and the result after the call.                                  *)
(***************************************************************************)
Done(coll, nc, r) == [db |-> coll, nextCar |-> nc, ret |-> r]

\* the fetch is returned without await: its rejection passes the catch by
createUser(coll, nc, data, fields) ==
    LET s == save(coll, nc, data)
    IN IF s.err # "" THEN Done(coll, nc, Threw(CreateCatch(s.err)))
       ELSE Done(s.db, s.nextCar, fetch(s.db, data.email, fields))

updateUser(coll, nc, data, fields) ==
    LET s == updateOne(coll, nc, data._id, Without(data, "_id"))
    IN IF s.err # "" THEN Done(coll, nc, Threw(s.err))
       ELSE Done(s.db, s.nextCar, fetch(s.db, data._id, fields))

update(coll, nc, data, fields) ==
    LET d == HashPassword(data)
    IN IF HasId(d) THEN updateUser(coll, nc, d, fields)
       ELSE createUser(coll, nc, d, fields)

addCar(coll, nc, userId, carId, regNumber, fields) ==
    LET c == carsCount(coll, userId)
    IN IF c.err # "" THEN Done(coll, nc, Threw(c.err))
       ELSE IF LimitReached(c.n) THEN Done(coll, nc, Threw("LimitExceeded"))
       ELSE LET s == pushCar(coll, nc, userId, carId, regNumber)
            IN IF s.err # "" THEN Done(coll, nc, LoggedNull(s.err))
               ELSE IF s.nModified # 1 THEN Done(coll, nc, LoggedNull("Invalid add car"))
               ELSE Done(s.db, s.nextCar, Swallow(fetch(s.db, userId, fields)))

removeCar(coll, nc, carId, fields) ==
    LET o == findOwner(coll, carId)
    IN IF o.err # "" THEN Done(coll, nc, LoggedNull(o.err))
       ELSE IF o.owner = <<>> THEN Done(coll, nc, LoggedNull("Invalid carId given!"))
       ELSE LET s == pullCar(coll, nc, carId)
            IN Done(s.db, s.nextCar, Swallow(fetch(s.db, o.owner, fields)))

(***************************************************************************)
(* Inputs.                                                                 *)
(***************************************************************************)
EmailA == <<"a", "@", "x">>

EmailB == <<"b", "@", "x">>

\* a string without "@" that is no identifier either
Bob == <<"b", "o", "b">>

PwdP == <<"p">>

PwdQ == <<"q">>

Ann == <<"Ann">>

Zed == <<"Zed">>

Lee == <<"Lee">>

\* a well-formed identifier no document or car has
NoSuchOid == [i \in 1..OidLen |-> "f"]

UserOids == {UserOid(k) : k \in 1..MaxUsers}

CarOids == {CarOid(k) : k \in 1..MaxCarIds}

Car(reg) == [carId |-> <<"kia">>, regNumber |-> reg]

RegNumbers == {<<"r1">>, <<"r2">>}

\* a cars payload one longer than the maximum
TooManyCars == [i \in 1..(MAX_USER_CARS_COUNT + 1) |-> Car(<<"r1">>)]

NoFields == <<>>

Person(e, pw) == [email |-> e, password |-> pw, firstName |-> Ann, lastName |-> Lee]

\* calls of the car-centred specification
CarCreateInputs ==
    {Person(e, PwdP) : e \in {EmailA, EmailB}}
    \cup {[Person(EmailA, PwdP) EXCEPT !.firstName = Zed] @@ [cars |-> TooManyCars]}

CarUpdateInputs ==
    {[_id |-> u, cars |-> cs] : u \in UserOids, cs \in {<<>>, TooManyCars}}

AddCarInputs ==
    {<<u, <<"r1">>, NoFields>> : u \in UserOids \cup {NoSuchOid, Bob, EmailA}}
    \cup {<<UserOid(1), <<"r2">>, <<"email", "cars">>>>}

RemoveCarInputs ==
    {<<c, NoFields>> : c \in CarOids \cup {NoSuchOid, Bob}}
    \cup {<<CarOid(2), <<"email", "cars">>>>}

\* calls of the user-centred specification
UserCreateInputs ==
    {Person(e, pw) : e \in {EmailA, EmailB, Bob}, pw \in {PwdP, <<>>}}
    \cup {Without(Person(e, PwdP), "password") : e \in {EmailA, EmailB}}
    \cup {Without(Person(EmailA, PwdP), "firstName")}

UserUpdateInputs ==
    {[_id |-> u, email |-> e] : u \in UserOids, e \in {EmailA, EmailB, Bob}}
    \cup {[_id |-> u, password |-> PwdQ, isActive |-> FALSE] : u \in UserOids}
    \cup {[_id |-> u, password |-> <<>>] : u \in UserOids}
    \cup {[_id |-> u, firstName |-> Zed] : u \in {NoSuchOid, Bob}}

UserInputs ==
    {<<d, NoFields>> : d \in UserCreateInputs \cup UserUpdateInputs}
    \cup {<<d, <<"email", "password">>>> :
            d \in {Person(EmailA, PwdP), Person(Bob, PwdP),
                   [_id |-> UserOid(1), email |-> EmailB],
                   [_id |-> UserOid(1), password |-> PwdQ, isActive |-> FALSE]}}

(***************************************************************************)
(* State.                                                                  *)
(***************************************************************************)
NoCall == [op |-> "none"]

NoLocal == [criteria |-> <<>>]

Init ==
    /\ db = <<>>
    /\ nextCar = 1
    /\ pc = [p \in Procs |-> "idle"]
    /\ local = [p \in Procs |-> NoLocal]
    /\ call = [p \in Procs |-> NoCall]
    /\ before = [p \in Procs |-> <<>>]
    /\ ret = [p \in Procs |-> Pending]

AllIdle == \A q \in Procs : pc[q] = "idle"

\* client p made call c on the collection as it is, with outcome r
Served(p, c, r) ==
    /\ db' = r.db
    /\ nextCar' = r.nextCar
    /\ call' = [call EXCEPT ![p] = c]
    /\ before' = [before EXCEPT ![p] = db]
    /\ ret' = [ret EXCEPT ![p] = r.ret]
    /\ UNCHANGED <<pc, local>>

(***************************************************************************)
(* The exposed handlers, one call at a time.                               *)
(***************************************************************************)
Update(p, data, fields) ==
    /\ AllIdle
    /\ Len(update(db, nextCar, data, fields).db) <= MaxUsers
    /\ update(db, nextCar, data, fields).nextCar <= MaxCarIds + 1
    /\ Served(p, [op |-> "update", data |-> data, fields |-> fields],
              update(db, nextCar, data, fields))

AddCar(p, userId, carId, regNumber, fields) ==
    /\ AllIdle
    /\ addCar(db, nextCar, userId, carId, regNumber, fields).nextCar <= MaxCarIds + 1
    /\ Served(p, [op |-> "addCar", userId |-> userId, carId |-> carId,
                  regNumber |-> regNumber, fields |-> fields],
              addCar(db, nextCar, userId, carId, regNumber, fields))

RemoveCar(p, carId, fields) ==
    /\ AllIdle
    /\ Served(p, [op |-> "removeCar", carId |-> carId, fields |-> fields],
              removeCar(db, nextCar, carId, fields))

\* users with cars: created and updated with or without a cars payload,
\* cars added and removed
Next ==
    \/ \E d \in CarCreateInputs \cup CarUpdateInputs : Update(1, d, NoFields)
    \/ \E a \in AddCarInputs : AddCar(1, a[1], <<"kia">>, a[2], a[3])
    \/ \E r \in RemoveCarInputs : RemoveCar(1, r[1], r[2])

Spec == Init /\ [][Next]_vars

\* users created and updated with every kind of payload
NextUsers == \E u \in UserInputs : Update(1, u[1], u[2])

SpecUsers == Init /\ [][NextUsers]_vars

(***************************************************************************)
(* The read handlers, one call at a time, over users of every kind.        *)
(***************************************************************************)
Fetch(p, criteria, fields) ==
    /\ AllIdle
    /\ Served(p, [op |-> "fetch", criteria |-> criteria, fields |-> fields],
              Done(db, nextCar, fetch(db, criteria, fields)))

\* an email no user has
EmailC == <<"c", "@", "x">>

\* the writes that populate the collection the reads run on
ReadWriteInputs ==
    {Person(e, PwdP) : e \in {EmailA, EmailB, Bob}}
    \cup {[Person(EmailB, PwdP) EXCEPT !.firstName = Zed] @@ [isActive |-> FALSE]}
    \cup {[_id |-> UserOid(1), email |-> Bob]}

FetchInputs ==
    {<<c, NoFields>> : c \in {EmailA, EmailB, EmailC, Bob, NoSuchOid} \cup UserOids}
    \cup {<<c, <<"email", "password">>>> : c \in {EmailA, UserOid(1)}}

\* the call keeps, with its arguments, the query it handed to the store
Count(p, args) ==
    /\ AllIdle
    /\ Served(p, [op |-> "count", args |-> args, query |-> prepare(OrEmpty(args))],
              Done(db, nextCar, count(db, args)))

Find(p, args) ==
    /\ AllIdle
    /\ Served(p, [op |-> "find", args |-> args, query |-> prepare(OrEmpty(args))],
              Done(db, nextCar, find(db, args)))

\* filter mappings: none, exact, partial in another case, with a wildcard,
\* and several keys at once
ReadFilters ==
    {<<>>,
     [isActive |-> TRUE],
     [isActive |-> FALSE],
     [email |-> <<"A">>],
     [email |-> <<"@", "X">>],
     [email |-> <<".", "@">>],
     [email |-> <<"B">>, isAdmin |-> FALSE],
     [firstName |-> Zed, isActive |-> FALSE],
     [lastName |-> Lee, firstName |-> Ann, email |-> <<"B", "O">>]}

\* skip and limit: absent, zero, within and beyond the matches
Pagings ==
    {<<>>,
     [skip |-> 0, limit |-> 0],
     [skip |-> 1],
     [limit |-> 1],
     [skip |-> 1, limit |-> 1],
     [skip |-> 0, limit |-> MaxUsers],
     [skip |-> MaxUsers + 1, limit |-> 1]}

\* the arguments of a count: the filters, or nothing
CountInputs == {<<>>} \cup {[filters |-> f] : f \in ReadFilters}

\* the arguments of a find: each of filters, fields, skip and limit or not
FindInputs ==
    Pagings
    \cup {[filters |-> f] @@ g : f \in ReadFilters, g \in Pagings}
    \cup {[filters |-> [isActive |-> TRUE], fields |-> <<"email">>] @@ g : g \in Pagings}

NextReads ==
    \/ \E d \in ReadWriteInputs : Update(1, d, NoFields)
    \/ \E f \in FetchInputs : Fetch(1, f[1], f[2])
    \/ \E a \in CountInputs : Count(1, a)
    \/ \E a \in FindInputs : Find(1, a)

SpecReads == Init /\ [][NextReads]_vars

(***************************************************************************)
(* A client that passes the document a call gave it back to update.        *)
(***************************************************************************)
\* the document has every path of the schema: no projection cut it down
FullDoc(doc) ==
    DOMAIN doc = {"_id", "email", "password", "isActive", "isAdmin",
                  "firstName", "lastName", "cars"}

\* client p calls update with the document its last call returned
UpdateReturned(p) ==
    /\ ret[p].kind = "doc"
    /\ FullDoc(ret[p].doc)
    /\ Len(ret[p].doc.password) <= MaxRehash + 1
    /\ Update(p, ret[p].doc, NoFields)

RoundTripWriteInputs ==
    {Person(EmailA, PwdP), Person(EmailB, PwdQ)}
    \cup {[_id |-> u, firstName |-> Zed] : u \in UserOids}

RoundTripFetchInputs ==
    {<<c, NoFields>> : c \in {EmailA, EmailB} \cup UserOids}
    \cup {<<EmailA, <<"email", "password">>>>}

NextRoundTrip ==
    \/ \E d \in RoundTripWriteInputs : Update(1, d, NoFields)
    \/ \E f \in RoundTripFetchInputs : Fetch(1, f[1], f[2])
    \/ UpdateReturned(1)

SpecRoundTrip == Init /\ [][NextRoundTrip]_vars

(***************************************************************************)
(* The exposed handlers of clients that overlap: one action per store      *)
(* round trip, a handler suspended between two of them.                    *)
(***************************************************************************)
\* client p starts call c
Starts(p, c) ==
    /\ call' = [call EXCEPT ![p] = c]
    /\ before' = [before EXCEPT ![p] = db]

\* client p's handler goes on to round trip `next` with locals l
Awaits(p, next, l) ==
    /\ pc' = [pc EXCEPT ![p] = next]
    /\ local' = [local EXCEPT ![p] = l]
    /\ ret' = [ret EXCEPT ![p] = Pending]

\* client p's handler ends with outcome r
Ends(p, r) ==
    /\ pc' = [pc EXCEPT ![p] = "idle"]
    /\ local' = [local EXCEPT ![p] = NoLocal]
    /\ ret' = [ret EXCEPT ![p] = r]

\* the final fetch of a handler: swallow is set inside addCar / removeCar
Refetching(criteria, fields, swallow) ==
    [criteria |-> criteria, fields |-> fields, swallow |-> swallow]

\* update, to its write: user.save() or UserModel.updateOne()
UpdateWrite(p, data, fields) ==
    /\ pc[p] = "idle"
    /\ LET d == HashPassword(data)
           s == IF HasId(d) THEN updateOne(db, nextCar, d._id, Without(d, "_id"))
                ELSE save(db, nextCar, d)
       IN /\ Len(s.db) <= MaxUsers
          /\ s.nextCar <= MaxCarIds + 1
          /\ db' = s.db
          /\ nextCar' = s.nextCar
          /\ IF s.err # ""
             THEN Ends(p, Threw(IF HasId(d) THEN s.err ELSE CreateCatch(s.err)))
             ELSE Awaits(p, "fetch",
                         Refetching(IF HasId(d) THEN d._id ELSE d.email, fields, FALSE))
    /\ Starts(p, [op |-> "update", data |-> data, fields |-> fields])

\* the fetch that ends update, addCar and removeCar
Refetch(p) ==
    /\ pc[p] = "fetch"
    /\ LET f == fetch(db, local[p].criteria, local[p].fields)
       IN Ends(p, IF local[p].swallow THEN Swallow(f) ELSE f)
    /\ UNCHANGED <<db, nextCar, call, before>>

\* addCar, to its count read and limit check
AddCarCount(p, userId, carId, regNumber, fields) ==
    /\ pc[p] = "idle"
    /\ nextCar + Cardinality({q \in Procs : pc[q] = "push"}) <= MaxCarIds
    /\ LET c == carsCount(db, userId)
       IN IF c.err # "" THEN Ends(p, Threw(c.err))
          ELSE IF LimitReached(c.n) THEN Ends(p, Threw("LimitExceeded"))
          ELSE Awaits(p, "push", [count |-> c.n])
    /\ Starts(p, [op |-> "addCar", userId |-> userId, carId |-> carId,
                  regNumber |-> regNumber, fields |-> fields])
    /\ UNCHANGED <<db, nextCar>>

\* addCar, its push
AddCarPush(p) ==
    /\ pc[p] = "push"
    /\ LET s == pushCar(db, nextCar, call[p].userId, call[p].carId, call[p].regNumber)
       IN /\ db' = s.db
          /\ nextCar' = s.nextCar
          /\ IF s.err # "" THEN Ends(p, LoggedNull(s.err))
             ELSE IF s.nModified # 1 THEN Ends(p, LoggedNull("Invalid add car"))
             ELSE Awaits(p, "fetch", Refetching(call[p].userId, call[p].fields, TRUE))
    /\ UNCHANGED <<call, before>>

\* removeCar, to its look-up of the owner
RemoveCarFind(p, carId, fields) ==
    /\ pc[p] = "idle"
    /\ LET o == findOwner(db, carId)
       IN IF o.err # "" THEN Ends(p, LoggedNull(o.err))
          ELSE IF o.owner = <<>> THEN Ends(p, LoggedNull("Invalid carId given!"))
          ELSE Awaits(p, "pull", [owner |-> o.owner])
    /\ Starts(p, [op |-> "removeCar", carId |-> carId, fields |-> fields])
    /\ UNCHANGED <<db, nextCar>>

\* removeCar, its pull
RemoveCarPull(p) ==
    /\ pc[p] = "pull"
    /\ LET s == pullCar(db, nextCar, call[p].carId)
       IN /\ db' = s.db
          /\ nextCar' = s.nextCar
          /\ Awaits(p, "fetch", Refetching(local[p].owner, call[p].fields, TRUE))
    /\ UNCHANGED <<call, before>>

\* overlapping addCar and removeCar calls on a user of the collection
NextRace ==
    \E p \in Procs :
        \/ UpdateWrite(p, Person(EmailA, PwdP), NoFields)
        \/ \E u \in UserOids : AddCarCount(p, u, <<"kia">>, <<"r1">>, NoFields)
        \/ AddCarPush(p)
        \/ \E c \in CarOids : RemoveCarFind(p, c, NoFields)
        \/ RemoveCarPull(p)
        \/ Refetch(p)

SpecRace == Init /\ [][NextRace]_vars

RaceUpdateInputs ==
    {Person(e, PwdP) : e \in {EmailA, EmailB, Bob}}
    \cup {[_id |-> u, email |-> e] : u \in UserOids, e \in {EmailA, EmailB}}

\* overlapping update calls that create users and change their emails
NextRaceUsers ==
    \E p \in Procs :
        \/ \E d \in RaceUpdateInputs : UpdateWrite(p, d, NoFields)
        \/ Refetch(p)

SpecRaceUsers == Init /\ [][NextRaceUsers]_vars

(***************************************************************************)
(* Properties of the calls made one at a time.                             *)
(***************************************************************************)
IsCall(p, op) == call[p].op = op

\* the position in collection coll of the document with identifier id, 0 if none
PosOf(coll, id) ==
    IF \E i \in 1..Len(coll) : coll[i]._id = id
    THEN CHOOSE i \in 1..Len(coll) : coll[i]._id = id
    ELSE 0

\* all documents but the one at position i are the same in coll1 and coll2
SameBut(coll1, coll2, i) ==
    /\ Len(coll1) = Len(coll2)
    /\ \A k \in 1..Len(coll1) : k # i => coll1[k] = coll2[k]

\* all paths of the documents d1, d2 but those in S are the same
SamePathsBut(d1, d2, S) == \A f \in DOMAIN d1 \ S : d1[f] = d2[f]

\* C1: an addCar call on an existing user that holds fewer cars than the
\* maximum succeeds and appends exactly the given car to the user's cars; one
\* on a user that holds the maximum (or more) fails with LimitExceeded and
\* leaves the collection as it was.  From a fresh user, the first max calls
\* succeed and the (max+1)th fails with the length still max.
C1_AddCarUpToLimit ==
    \A p \in Procs :
        (IsCall(p, "addCar") /\ PosOf(before[p], call[p].userId) # 0) =>
            LET i == PosOf(before[p], call[p].userId)
                old == before[p][i].cars
            IN IF Len(old) < MAX_USER_CARS_COUNT
               THEN /\ ret[p].kind = "doc"
                    /\ Len(db[i].cars) = Len(old) + 1
                    /\ SubSeq(db[i].cars, 1, Len(old)) = old
                    /\ db[i].cars[Len(old) + 1].carId = call[p].carId
                    /\ db[i].cars[Len(old) + 1].regNumber = call[p].regNumber
                    /\ SameBut(db, before[p], i)
               ELSE /\ ret[p] = Threw("LimitExceeded")
                    /\ db = before[p]

\* the (max+1)th addCar on a user whose max cars all came from addCar calls
\* (no other car identifier was ever handed out) failed, the length still max
C1_Witness ==
    \E p \in Procs :
        /\ IsCall(p, "addCar")
        /\ ret[p] = Threw("LimitExceeded")
        /\ PosOf(db, call[p].userId) # 0
        /\ Len(db[PosOf(db, call[p].userId)].cars) = MAX_USER_CARS_COUNT
        /\ nextCar = MAX_USER_CARS_COUNT + 1

\* C3: every user's cars sequence has length at most the configured maximum
C3_CarsWithinLimit ==
    \A i \in 1..Len(db) : Len(db[i].cars) <= MAX_USER_CARS_COUNT

\* C8: a removeCar call with a well-formed car identifier that no user's
\* cars hold fails with the InvalidCarId error and changes no document
C8_UnknownCarFails ==
    \A p \in Procs :
        (/\ IsCall(p, "removeCar")
         /\ ObjectIdValid(call[p].carId)
         /\ Owning(before[p], call[p].carId) = {}) =>
            /\ ret[p] = Threw("Invalid carId given!")
            /\ db = before[p]

\* C9: a removeCar call with the identifier of a car some user holds removes
\* exactly that car from its owner, keeps the owner's other cars in their
\* order, changes no other path of the owner and no other document, and
\* returns the owner's document as it is after the removal
C9_RemoveCarRemovesOne ==
    \A p \in Procs :
        (IsCall(p, "removeCar") /\ Owning(before[p], call[p].carId) # {}) =>
            LET i == First(Owning(before[p], call[p].carId))
                old == before[p][i].cars
                j == CHOOSE j \in 1..Len(old) : old[j]._id = call[p].carId
            IN /\ db[i].cars = SubSeq(old, 1, j - 1) \o SubSeq(old, j + 1, Len(old))
               /\ SamePathsBut(db[i], before[p][i], {"cars"})
               /\ SameBut(db, before[p], i)
               /\ ret[p] = Returned(Project(db[i], call[p].fields))

\* a car was removed from between two siblings' owner: one that still holds
\* another car, while another user exists
C9_Witness ==
    \E p \in Procs :
        /\ IsCall(p, "removeCar")
        /\ ret[p].kind = "doc"
        /\ Len(db) > 1
        /\ \E i \in 1..Len(db) :
              /\ db[i]._id = ret[p].doc._id
              /\ Len(db[i].cars) >= 1
              /\ Len(before[p][i].cars) = Len(db[i].cars) + 1
              /\ before[p][i].cars[1]._id # call[p].carId

\* C10: addCar and removeCar throw nothing but LimitExceeded; a malformed
\* identifier rejected by the driver is logged and answered with null
C10_CarCallsSwallowStoreErrors ==
    \A p \in Procs :
        /\ (IsCall(p, "addCar") \/ IsCall(p, "removeCar")) =>
              (ret[p].kind = "error" => ret[p].err = "LimitExceeded")
        /\ (IsCall(p, "addCar") /\ ~isEmail(call[p].userId)
                /\ ~ObjectIdValid(call[p].userId)) =>
              (ret[p].kind = "null" /\ ret[p].log # "")
        /\ (IsCall(p, "removeCar") /\ ~ObjectIdValid(call[p].carId)) =>
              (ret[p].kind = "null" /\ ret[p].log # "")

(***************************************************************************)
(* Properties of update.                                                   *)
(***************************************************************************)
\* an update call without identifier, that is a create
IsCreate(p) == IsCall(p, "update") /\ ~HasId(call[p].data)

\* an update call with the identifier of a user that exists
IsUpdateOf(p, i) ==
    /\ IsCall(p, "update")
    /\ HasId(call[p].data)
    /\ i # 0
    /\ i = PosOf(before[p], call[p].data._id)

EmailTaken(coll, e) == \E i \in 1..Len(coll) : coll[i].email = e

\* the payload carries every path the schema requires, none of them empty
Complete(data) ==
    \A f \in {"email", "password", "firstName", "lastName"} :
        Has(data, f) /\ data[f] # <<>>

\* C5 as stated: a create with an email an existing user has fails with
\* DuplicateEmail and leaves the collection as it was
C5_DuplicateCreateFails ==
    \A p \in Procs :
        (/\ IsCreate(p)
         /\ Has(call[p].data, "email")
         /\ EmailTaken(before[p], call[p].data.email)) =>
            /\ ret[p] = Threw("DuplicateEmail")
            /\ db = before[p]

\* C5, amended: a create with an email an existing user has leaves the
\* collection as it was and fails: with DuplicateEmail when the payload
\* carries every required path, with the validation error otherwise
C5_DuplicateCreateFailsValid ==
    \A p \in Procs :
        (/\ IsCreate(p)
         /\ Has(call[p].data, "email")
         /\ EmailTaken(before[p], call[p].data.email)) =>
            /\ db = before[p]
            /\ ret[p] = Threw(IF Complete(call[p].data) THEN "DuplicateEmail"
                              ELSE "ValidationError")

\* a complete payload with a taken email was refused as a duplicate
C5_Witness ==
    \E p \in Procs :
        /\ IsCreate(p)
        /\ Complete(call[p].data)
        /\ EmailTaken(before[p], call[p].data.email)
        /\ ret[p] = Threw("DuplicateEmail")
        /\ Len(db) >= 1

\* C6: a create with a complete payload and an email no user has adds
\* exactly one document and returns it, its password the digest of the
\* plaintext given and not the plaintext
C6_CreateAddsOne ==
    \A p \in Procs :
        (/\ IsCreate(p)
         /\ Complete(call[p].data)
         /\ ~EmailTaken(before[p], call[p].data.email)) =>
            LET n == Len(before[p]) + 1
            IN /\ Len(db) = n
               /\ SubSeq(db, 1, n - 1) = before[p]
               /\ db[n].email = call[p].data.email
               /\ db[n].password = md5(call[p].data.password)
               /\ db[n].password # call[p].data.password
               /\ ret[p] = Returned(Project(db[n], call[p].fields))

\* the paths of the payload as the store is to hold them
Stored(data, f) ==
    IF f = "password" THEN md5(data.password) ELSE data[f]

EmailClash(coll, data, i) ==
    Has(data, "email") /\ \E k \in 1..Len(coll) : k # i /\ coll[k].email = data.email

C2_LimitExceededOnlyJointly ==
    /\ \A p \in Procs : pc[p] = "push" => local[p].count < MAX_USER_CARS_COUNT
    /\ \A i \in 1..Len(db) :
          Len(db[i].cars) <= MAX_USER_CARS_COUNT + Cardinality(Procs) - 1

\* both clients' addCar calls on the same user read a count below the
\* maximum, pushed and returned, and the user holds more cars than the maximum
C2_Witness ==
    \E i \in 1..Len(db) :
        /\ Len(db[i].cars) > MAX_USER_CARS_COUNT
        /\ \A p \in Procs :
              /\ IsCall(p, "addCar")
              /\ call[p].userId = db[i]._id
              /\ i <= Len(before[p])
              /\ Len(before[p][i].cars) < MAX_USER_CARS_COUNT
              /\ ret[p].kind = "doc"

\* C4: no two documents of the collection have the same email
C4_EmailUnique ==
    \A i, j \in 1..Len(db) : i # j => db[i].email # db[j].email

\* while client 1's create is suspended between its insert and its fetch,
\* client 2's create with the same email was refused as a duplicate
C4_Witness ==
    /\ pc[1] = "fetch"
    /\ IsCreate(1)
    /\ IsCreate(2)
    /\ call[1].data.email = call[2].data.email
    /\ ret[2] = Threw("DuplicateEmail")
    /\ Len(db) = 1

\* C11: a fetch call whose criteria is the email or the identifier of a
\* stored user returns that user's document, under the fields asked for, so
\* the two calls return the same document; one whose criteria is an email or
\* an identifier that no user has returns nothing and no error
C11_FetchByEmailOrId ==
    \A p \in Procs :
        IsCall(p, "fetch") =>
            LET c == call[p].criteria
                m == {i \in 1..Len(db) : db[i].email = c \/ db[i]._id = c}
            IN /\ \A i \in m : ret[p] = Returned(Project(db[i], call[p].fields))
               /\ (m = {} /\ (isEmail(c) \/ ObjectIdValid(c))) => ret[p] = Null

\* the users of collection coll that filters (or no filters) match: every
\* isActive / isAdmin given is the user's value, every other value given
\* occurs in the user's value of that path, letter case apart
Matches(coll, args) ==
    LET filters == IF Has(args, "filters") THEN args.filters ELSE <<>>
    IN {i \in 1..Len(coll) :
          \A k \in DOMAIN filters :
              IF k \in {"isActive", "isAdmin"} THEN coll[i][k] = filters[k]
              ELSE RegexFind(filters[k], "i", coll[i][k])}

Min(a, b) == IF a < b THEN a ELSE b

Max(a, b) == IF a > b THEN a ELSE b

Given(args, k) == IF Has(args, k) THEN args[k] ELSE 0

\* C12: with n the number of users matching the filters, count returns n;
\* find returns only matching users (each under the fields asked for, none
\* twice), min(limit, max(0, n - skip)) of them when limit is positive and
\* max(0, n - skip) when it is zero or absent, a skip of zero or absent
\* skipping nothing; neither call changes the collection
C12_CountAndFind ==
    \A p \in Procs :
        /\ IsCall(p, "count") =>
              /\ ret[p] = Counted(Cardinality(Matches(db, call[p].args)))
              /\ db = before[p]
        /\ IsCall(p, "find") =>
              LET args == call[p].args
                  n == Cardinality(Matches(db, args))
                  left == Max(0, n - Given(args, "skip"))
                  docs == ret[p].docs
              IN /\ ret[p].kind = "docs"
                 /\ Len(docs) = IF Given(args, "limit") > 0
                                THEN Min(args.limit, left) ELSE left
                 /\ \A j \in 1..Len(docs) :
                       \E i \in Matches(db, args) :
                           docs[j] = Project(db[i], IF Has(args, "fields")
                                                    THEN args.fields ELSE <<>>)
                 /\ \A j, k \in 1..Len(docs) : j # k => docs[j]._id # docs[k]._id
                 /\ db = before[p]

\* a find under filters and a positive limit, smaller than the number of
\* matching users, gave back that many users
C12_Witness ==
    \E p \in Procs :
        /\ IsCall(p, "find")
        /\ Has(call[p].args, "filters")
        /\ DOMAIN call[p].args.filters # {}
        /\ Given(call[p].args, "limit") > 0
        /\ Given(call[p].args, "limit")
              < Cardinality(Matches(db, call[p].args)) - Given(call[p].args, "skip")
        /\ Len(ret[p].docs) = call[p].args.limit

\* C13: the query prepare makes of a filter mapping has the mapping's keys;
\* under isActive and isAdmin it holds the given value itself, which the
\* store matches exactly, and under every other key a case-insensitive
\* pattern of the given value, which the store matches anywhere in the
\* user's value; the query of an empty or absent mapping matches every user
C13_PrepareWrapsAllButBooleans ==
    \A p \in Procs :
        (IsCall(p, "count") \/ IsCall(p, "find")) =>
            LET args == call[p].args
                filters == IF Has(args, "filters") THEN args.filters ELSE <<>>
                query == call[p].query
            IN /\ DOMAIN query = DOMAIN filters
               /\ \A k \in DOMAIN filters :
                     IF k \in {"isActive", "isAdmin"}
                     THEN query[k] = filters[k]
                     ELSE query[k] = [regex |-> filters[k], options |-> "i"]
               /\ \A i \in 1..Len(db) : Match(db[i], query) <=> i \in Matches(db, args)
               /\ DOMAIN filters = {} => \A i \in 1..Len(db) : Match(db[i], query)

\* a count under a mapping with a boolean and a text key, the text in another
\* letter case than the stored value: one user counted, another not
C13_Witness ==
    \E p \in Procs :
        /\ IsCall(p, "count")
        /\ Has(call[p].args, "filters")
        /\ DOMAIN call[p].args.filters = {"email", "isAdmin"}
        /\ ret[p].n = 1
        /\ Len(db) > 1
        /\ \A i \in 1..Len(db) : ~RegexFind(call[p].args.filters.email, "", db[i].email)

\* C14: an update call with no identifier that ends in an error, of whatever
\* kind, has left the collection as it was before the call
C14_FailedCreatePersistsNothing ==
    \A p \in Procs :
        (IsCreate(p) /\ ret[p].kind = "error") => db = before[p]

\* C15: an update call whose payload is a stored document in full, as fetch
\* or update returned it, identifier included, leaves the collection as it
\* was: the stored password, the digest of the plaintext, is not digested
\* a second time
C15_RoundTripIsNoOp ==
    \A p \in Procs :
        (/\ IsCall(p, "update")
         /\ HasId(call[p].data)
         /\ \E i \in 1..Len(before[p]) : before[p][i] = call[p].data) =>
            db = before[p]

====
